---- MODULE Spec2Model ----
(***************************************************************************)
(* The guest side of py4cl (src/py4cl.py): the message dispatch loop, the  *)
(* marshaler (lispify), the handle table (python_objects / python_handle), *)
(* the return-mode counter (return_values) and the two proxy classes.      *)
(*                                                                         *)
(* The Python call stack is the variable `stack`: one record per running   *)
(* invocation of message_dispatch_loop.  The host is the environment: it   *)
(* chooses the command bytes and their payloads.  `out` holds the frames   *)
(* written to return_stream that the host has not consumed yet; the host   *)
(* drains it when it writes its next command byte.                         *)
(***************************************************************************)
EXTENDS Integers, Sequences, FiniteSets, TLC

\* ------------------------------------------------------------------ bounds
\* The host stops sending e / x / unknown commands once this many handles
\* have been drawn from python_handle.
MaxHandle == 2
\* Nested invocations of message_dispatch_loop below the top-level one.
MaxDepth == 1
\* |return_values| never exceeds this: the host stops sending O / o there.
MaxRv == 1
\* Frames the host leaves unread on return_stream while it interrupts an
\* idle guest.
MaxUnread == 2

\* ------------------------------------------------------------------ values
\* A Python value: its type (k), an integer (n), text chunks (s) and, for
\* list and tuple, its elements.  A text chunk is either one character that
\* the str lispifier escapes (backslash, double quote) or a run without any.
Val(k, n, s, elts) == [k |-> k, n |-> n, s |-> s, elts |-> elts]

VNone == Val("NoneType", 0, <<>>, <<>>)
VInt(n) == Val("int", n, <<>>, <<>>)
VStr(s) == Val("str", 0, s, <<>>)
VSymbol(s) == Val("Symbol", 0, s, <<>>)
\* An instance of Exception; s is its message, str(e).
VExc(s) == Val("Exception", 0, s, <<>>)
\* An instance of a class with no lispifier that is not a number.
VObj(n) == Val("object", n, <<>>, <<>>)
\* A number whose exact type has no lispifier (decimal.Decimal).
VDecimal(n) == Val("Decimal", n, <<>>, <<>>)
VList(elts) == Val("list", 0, <<>>, elts)
VTuple(elts) == Val("tuple", 0, <<>>, elts)
\* l = []; l.append(l): a list that contains itself.
VCyclic == Val("list", 1, <<>>, <<>>)

RECURSIVE Join(_)
Join(s) == IF s = <<>> THEN "" ELSE Head(s) \o Join(Tail(s))

\* str(value) for the types whose lispifier is str, and for exceptions.
PyStr(v) ==
    IF v.k \in {"int", "Decimal"} THEN ToString(v.n) ELSE Join(v.s)

\* x.replace("\\", "\\\\").replace("\"", "\\\"")
RECURSIVE Escape(_)
Escape(s) ==
    IF s = <<>> THEN ""
    ELSE (IF Head(s) = "\\" THEN "\\\\"
          ELSE IF Head(s) = "\"" THEN "\\\""
          ELSE Head(s)) \o Escape(Tail(s))

\* str(type(obj))
TypeStr(v) == "<class '" \o v.k \o "'>"

\* The keys of lispifiers, among the types of the values above.
lispifiers == {"NoneType", "int", "list", "tuple", "str", "Symbol"}

\* isinstance(obj, numeric_base_classes), among the types of the values above.
numeric_base_classes == {"int", "Decimal"}

\* ------------------------------------------------------------ handle table
\* The marshaler's view of the handle table: nh is the next value of
\* python_handle, objs is python_objects, hs the handles drawn so far by the
\* call in progress (in order).
Store(nh, objs) == [nh |-> nh, objs |-> objs, hs |-> <<>>]

\* The result of a lispify call: the text, whether it raised instead, and
\* the handle table it leaves.
Res(text, raised, st) ==
    [text |-> text, raised |-> raised, nh |-> st.nh, objs |-> st.objs,
     hs |-> st.hs]

ResStore(r) == [nh |-> r.nh, objs |-> r.objs, hs |-> r.hs]

\* A lispify_handle that hands out the table's size as the handle.
LispifyHandleBySize(obj, st) ==
    LET handle == Cardinality(DOMAIN st.objs) IN
    Res("#.(py4cl2::make-python-object-finalize :type \"" \o TypeStr(obj)
          \o "\" :handle " \o ToString(handle) \o ")",
        FALSE,
        [nh |-> st.nh + 1,
         objs |-> [h \in DOMAIN st.objs \cup {handle} |->
                      IF h = handle THEN obj ELSE st.objs[h]],
         hs |-> Append(st.hs, handle)])

\* A lispify_handle that stores under the handle it handed out last.
LispifyHandleOverwrite(obj, st) ==
    LET handle == IF st.nh > 0 THEN st.nh - 1 ELSE 0 IN
    Res("#.(py4cl2::make-python-object-finalize :type \"" \o TypeStr(obj)
          \o "\" :handle " \o ToString(handle) \o ")",
        FALSE,
        [nh |-> st.nh + 1,
         objs |-> [h \in DOMAIN st.objs \cup {handle} |->
                      IF h = handle THEN obj ELSE st.objs[h]],
         hs |-> Append(st.hs, handle)])

\* lispify_handle: handle = next(python_handle); python_objects[handle] = obj
lispify_handle(obj, st) ==
    LET handle == st.nh IN
    Res("#.(py4cl2::make-python-object-finalize :type \"" \o TypeStr(obj)
          \o "\" :handle " \o ToString(handle) \o ")",
        FALSE,
        [nh |-> st.nh + 1,
         objs |-> [h \in DOMAIN st.objs \cup {handle} |->
                      IF h = handle THEN obj ELSE st.objs[h]],
         hs |-> Append(st.hs, handle)])

\* ---------------------------------------------------------------- lispify
\* A lispify that forgets the return_values > 0 branch.
RECURSIVE LispifyNoForce(_, _, _)
RECURSIVE LispifyEltsNoForce(_, _, _)
LispifyEltsNoForce(elts, rv, st) ==
    IF elts = <<>> THEN Res("", FALSE, st)
    ELSE LET first == LispifyNoForce(Head(elts), rv, st) IN
         IF first.raised THEN first
         ELSE IF Tail(elts) = <<>> THEN first
         ELSE LET rest == LispifyEltsNoForce(Tail(elts), rv, ResStore(first)) IN
              IF rest.raised THEN rest
              ELSE Res(first.text \o " " \o rest.text, FALSE, ResStore(rest))

LispifyNoForce(obj, rv, st) ==
    IF obj.k = "Exception" THEN Res(PyStr(obj), FALSE, st)
    ELSE IF obj = VCyclic THEN
        Res("maximum recursion depth exceeded", TRUE, st)
    ELSE IF obj.k = "NoneType" THEN Res("\"None\"", FALSE, st)
    ELSE IF obj.k = "int" THEN Res(PyStr(obj), FALSE, st)
    ELSE IF obj.k = "list" THEN
        LET r == LispifyEltsNoForce(obj.elts, rv, st) IN
        IF r.raised THEN r ELSE Res("#(" \o r.text \o ")", FALSE, ResStore(r))
    ELSE IF obj.k = "tuple" THEN
        IF Len(obj.elts) = 0 THEN Res("\"()\"", FALSE, st)
        ELSE LET r == LispifyEltsNoForce(obj.elts, rv, st) IN
             IF r.raised THEN r
             ELSE Res("(" \o r.text \o ")", FALSE, ResStore(r))
    ELSE IF obj.k = "str" THEN Res("\"" \o Escape(obj.s) \o "\"", FALSE, st)
    ELSE IF obj.k = "Symbol" THEN Res(PyStr(obj), FALSE, st)
    ELSE IF obj.k \in numeric_base_classes THEN Res(PyStr(obj), FALSE, st)
    ELSE lispify_handle(obj, st)

\* lispify(obj) under return_values = rv.  The lispifiers of list and tuple
\* call lispify on each element from left to right; an element that raises
\* ends the call, and the handles drawn before it stay in the table.
RECURSIVE lispify(_, _, _)
RECURSIVE LispifyElts(_, _, _)
LispifyElts(elts, rv, st) ==
    IF elts = <<>> THEN Res("", FALSE, st)
    ELSE LET first == lispify(Head(elts), rv, st) IN
         IF first.raised THEN first
         ELSE IF Tail(elts) = <<>> THEN first
         ELSE LET rest == LispifyElts(Tail(elts), rv, ResStore(first)) IN
              IF rest.raised THEN rest
              ELSE Res(first.text \o " " \o rest.text, FALSE, ResStore(rest))

lispify(obj, rv, st) ==
    IF rv > 0 THEN
        IF obj.k = "Exception" THEN Res(PyStr(obj), FALSE, st)
        ELSE lispify_handle(obj, st)
    ELSE IF obj.k = "Exception" THEN Res(PyStr(obj), FALSE, st)
    ELSE IF obj.k \in lispifiers THEN
        \* lispifiers[type(obj)](obj)
        IF obj = VCyclic THEN
            \* RecursionError, which is not a KeyError
            Res("maximum recursion depth exceeded", TRUE, st)
        ELSE IF obj.k = "NoneType" THEN Res("\"None\"", FALSE, st)
        ELSE IF obj.k = "int" THEN Res(PyStr(obj), FALSE, st)
        ELSE IF obj.k = "list" THEN
            LET r == LispifyElts(obj.elts, rv, st) IN
            IF r.raised THEN r
            ELSE Res("#(" \o r.text \o ")", FALSE, ResStore(r))
        ELSE IF obj.k = "tuple" THEN
            IF Len(obj.elts) = 0 THEN Res("\"()\"", FALSE, st)
            ELSE LET r == LispifyElts(obj.elts, rv, st) IN
                 IF r.raised THEN r
                 ELSE Res("(" \o r.text \o ")", FALSE, ResStore(r))
        ELSE IF obj.k = "str" THEN
            Res("\"" \o Escape(obj.s) \o "\"", FALSE, st)
        ELSE \* Symbol : str
            Res(PyStr(obj), FALSE, st)
    ELSE \* except KeyError
        IF obj.k \in numeric_base_classes THEN Res(PyStr(obj), FALSE, st)
        ELSE lispify_handle(obj, st)

\* send_value: the text written after the length line.  An exception of
\* lispify is replaced by the text "Lispify error: ...".
send_value(value, rv, st) ==
    LET r == lispify(value, rv, st) IN
    IF r.raised THEN Res("Lispify error: " \o r.text, FALSE, ResStore(r))
    ELSE r

\* One message on return_stream: the type byte and the framed payload.
Frame(type, payload) == [type |-> type, payload |-> payload]

\* What a sequence of writes leaves: the frames written and the handle table.
Sent(frames, st) ==
    [frames |-> frames, nh |-> st.nh, objs |-> st.objs, hs |-> st.hs]

\* A return_error that writes the type byte r.
ReturnErrorAsValue(error, rv, st) ==
    LET r == send_value(error, rv, st) IN
    Sent(<<Frame("r", r.text)>>, ResStore(r))

\* A return_error that writes nothing.
ReturnErrorSilent(error, rv, st) == Sent(<<>>, st)

\* return_error: write "e", then send_value(error)
return_error(error, rv, st) ==
    LET r == send_value(error, rv, st) IN
    Sent(<<Frame("e", r.text)>>, ResStore(r))

\* A return_value that calls return_error for an exception and then goes
\* on to write the r frame as well.
ReturnValueFallsThrough(value, rv, st) ==
    LET e == IF value.k = "Exception" THEN return_error(value, rv, st)
             ELSE Sent(<<>>, st)
        r == send_value(value, rv, [nh |-> e.nh, objs |-> e.objs,
                                    hs |-> e.hs]) IN
    Sent(e.frames \o <<Frame("r", r.text)>>, ResStore(r))

\* return_value: an exception goes to return_error; otherwise write "r",
\* then send_value(value)
return_value(value, rv, st) ==
    IF value.k = "Exception" THEN return_error(value, rv, st)
    ELSE LET r == send_value(value, rv, st) IN
         Sent(<<Frame("r", r.text)>>, ResStore(r))

\* __del__ of LispCallbackObject and of UnknownLispObject:
\* write "d", then send_value(self.handle)
proxy_del(handle, rv, st) ==
    LET r == send_value(VInt(handle), rv, st) IN
    Sent(<<Frame("d", r.text)>>, ResStore(r))

\* ------------------------------------------------------------------- state
VARIABLES
    return_values,   \* the global return_values
    python_handle,   \* the next value of itertools.count(0)
    python_objects,  \* the dict python_objects: handle -> value
    stack,           \* the running invocations of message_dispatch_loop
    out,             \* frames on return_stream the host has not consumed
    callbacks,       \* handles of the live LispCallbackObject instances
    foreigns,        \* handles of the live UnknownLispObject instances
    halted,          \* the process has ended
    issued           \* every handle next(python_handle) returned, in order

vars == <<return_values, python_handle, python_objects, stack, out,
          callbacks, foreigns, halted, issued>>

\* What the host sends as the source text of e, x and r, by what it does
\* when evaluated: op names the form, h a handle, v a value, args and kw the
\* arguments of a call.
Expr(op, h, v, args, kw) ==
    [op |-> op, h |-> h, v |-> v, args |-> args, kw |-> kw]
NoExpr == Expr("none", 0, VNone, <<>>, <<>>)
Lit(v) == Expr("lit", 0, v, <<>>, <<>>)
Raise == Expr("raise", 0, VNone, <<>>, <<>>)
Op(op, h) == Expr(op, h, VNone, <<>>, <<>>)
Call(h, args, kw) == Expr("call", h, VNone, args, kw)

\* The handles the host gives to the proxies it creates.
HostHandles == {7}
\* The handles the host names in _py4cl_objects[h] and del _py4cl_objects[h].
GuestHandles == {0, 1}
\* The values of the expressions the host sends with e.
EvalValues ==
    {VInt(5), VList(<<VObj(1)>>), VExc(<<"bad value">>), VCyclic}
\* The values the host returns with r.
ReturnValues == {VInt(5)}
\* The arguments of the calls of a callback proxy.
CallForms ==
    {[args |-> <<VObj(1)>>, kw |-> <<[key |-> "key", v |-> VInt(5)]>>]}
\* The unknown command bytes the host sends.
UnknownBytes == {"z"}

\* e: expressions.  _py4cl_objects[h], f(*args, **kw) on a callback proxy,
\* o.slot on a foreign object proxy.
ExprForms ==
    {Lit(v) : v \in EvalValues} \cup {Raise}
    \cup {Op("get", h) : h \in GuestHandles}
    \cup {Call(h, c.args, c.kw) : h \in HostHandles, c \in CallForms}
    \cup {Op("slot", h) : h \in HostHandles}

\* x: statements.  An expression statement, raise, del _py4cl_objects[h],
\* f = _py4cl_LispCallbackObject(h), o = _py4cl_UnknownLispObject("T", h),
\* del f, del o.
StmtForms ==
    {Lit(VInt(5)), Raise}
    \cup {Op("del", h) : h \in GuestHandles}
    \cup {Op(op, h) : op \in {"mkcb", "mkfo", "dropcb", "dropfo"},
                      h \in HostHandles}

\* One invocation of message_dispatch_loop.  pc: "read" (at
\* sys.stdin.read(1)), "eval" (inside eval / exec of the command's text),
\* "wait" (inside eval / exec, in a proxy that runs a nested loop).
\* cmd_type is the local of that name, expr the text being evaluated, sent
\* the number of r and e frames written since cmd_type was read, and
\* old_return_values the local of the __call__ that waits (0 otherwise).
Loop(pc, cmd_type, expr, sent) ==
    [pc |-> pc, cmd_type |-> cmd_type, expr |-> expr, sent |-> sent,
     old_return_values |-> 0]

\* The loop whose eval / exec is inside LispCallbackObject.__call__.
InCall(loop, old) ==
    [pc |-> "wait", cmd_type |-> loop.cmd_type, expr |-> loop.expr,
     sent |-> loop.sent, old_return_values |-> old]

Top == stack[Len(stack)]
SetTop(f) == [stack EXCEPT ![Len(stack)] = f]
Table == Store(python_handle, python_objects)

\* The effect of writes w on return_stream and on the handle table.
Wrote(w) ==
    /\ out' = out \o w.frames
    /\ python_handle' = w.nh
    /\ python_objects' = w.objs
    /\ issued' = issued \o w.hs

\* The r and e frames among the frames of w.
Responses(w) ==
    Cardinality({i \in DOMAIN w.frames : w.frames[i].type \in {"r", "e"}})

\* The loop on top of the stack, inside eval / exec, has handled its
\* command, writing w, and is back at sys.stdin.read(1).
Handled(w) ==
    /\ Wrote(w)
    /\ stack' = SetTop(Loop("read", Top.cmd_type, NoExpr,
                            Top.sent + Responses(w)))

\* The loop on top of the stack has read cmd and handled it without
\* evaluating anything, writing w, and is back at sys.stdin.read(1).
Answered(cmd, w) ==
    /\ out' = w.frames
    /\ python_handle' = w.nh
    /\ python_objects' = w.objs
    /\ issued' = issued \o w.hs
    /\ stack' = SetTop(Loop("read", cmd, NoExpr, Responses(w)))

Init ==
    /\ return_values = 0
    /\ python_handle = 0
    /\ python_objects = [h \in {} |-> VNone]
    /\ stack = <<Loop("read", "", NoExpr, 0)>>
    /\ out = <<>>
    /\ callbacks = {}
    /\ foreigns = {}
    /\ halted = FALSE
    /\ issued = <<>>

\* The loop on top of the stack is at sys.stdin.read(1).
Reading == ~halted /\ stack # <<>> /\ Top.pc = "read"
\* The loop on top of the stack is inside eval / exec.
Evaluating == ~halted /\ stack # <<>> /\ Top.pc = "eval"

\* The handles of a set of proxies, in ascending order.
RECURSIVE Ascending(_)
Ascending(hs) ==
    IF hs = {} THEN <<>>
    ELSE LET h == CHOOSE x \in hs : \A y \in hs : x <= y IN
         <<h>> \o Ascending(hs \ {h})

\* __del__ of the proxies with the handles hs, one after the other.
RECURSIVE FinalizeAll(_, _, _)
FinalizeAll(hs, rv, st) ==
    IF hs = <<>> THEN Sent(<<>>, st)
    ELSE LET d == proxy_del(Head(hs), rv, st)
             rest == FinalizeAll(Tail(hs), rv, ResStore(d)) IN
         Sent(d.frames \o rest.frames, ResStore(rest))

\* The process is about to end after reading cmd: exit(0) raises SystemExit,
\* which no except clause of message_dispatch_loop catches, or the
\* top-level loop returns and the module ends.  Every invocation of the loop
\* is unwound; pc "exit" is the interpreter before its shutdown.
Exited(cmd) ==
    /\ stack' = <<Loop("exit", cmd, NoExpr, 0)>>
    /\ out' = <<>>
    /\ UNCHANGED <<return_values, python_handle, python_objects, callbacks,
                   foreigns, halted, issued>>

\* The interpreter shuts down: it finalizes the proxies that are still
\* alive, whose __del__ write to return_stream (Python does not promise
\* that every __del__ runs).  Then the process and its memory are gone;
\* pc "done" keeps the last command byte read.
Shutdown ==
    /\ ~halted /\ stack # <<>> /\ Top.pc = "exit"
    /\ \E fo \in SUBSET foreigns, cb \in SUBSET callbacks :
           LET w == FinalizeAll(Ascending(fo) \o Ascending(cb),
                                return_values, Table) IN
           out' = w.frames
    /\ halted' = TRUE
    /\ stack' = <<Loop("done", Top.cmd_type, NoExpr, 0)>>
    /\ return_values' = 0
    /\ python_handle' = 0
    /\ python_objects' = [h \in {} |-> VNone]
    /\ callbacks' = {}
    /\ foreigns' = {}
    /\ issued' = <<>>

\* ------------------------------------------------- message_dispatch_loop
\* cmd_type "e" or "x" with a well-formed frame: recv_string returns the
\* text and eval / exec of it starts.
RecvCommand(cmd, expr) ==
    /\ Reading
    /\ python_handle < MaxHandle
    /\ expr.op \in {"call", "slot"} => Len(stack) <= MaxDepth
    /\ stack' = SetTop(Loop("eval", cmd, expr, 0))
    /\ out' = <<>>
    /\ UNCHANGED <<return_values, python_handle, python_objects, callbacks,
                   foreigns, halted, issued>>

RecvEval == \E expr \in ExprForms : RecvCommand("e", expr)

RecvExec == \E expr \in StmtForms : RecvCommand("x", expr)

\* cmd_type "e", "x" or "r" followed by a length line that is no number:
\* int() in recv_string raises ValueError, and except Exception reports it.
RecvMalformed ==
    \E cmd \in {"e", "x", "r"} :
        /\ Reading
        /\ python_handle < MaxHandle
        /\ LET w == return_error(VExc(<<"invalid literal for int()">>),
                                 return_values, Table) IN
           Answered(cmd, w)
        /\ UNCHANGED <<return_values, callbacks, foreigns, halted>>

\* cmd_type "q": exit(0)
RecvQuit ==
    /\ Reading
    /\ Exited("q")

\* A proxy whose nested loop hands it None whatever the host returned.
ResumedWithNone(loop, v) ==
    Loop("eval", loop.cmd_type, [loop.expr EXCEPT !.op = "lit", !.v = VNone],
         loop.sent)

\* return message_dispatch_loop() in __call__ and __getattr__: the loop
\* below, which waited in the proxy, goes on evaluating its text, of which
\* the call or slot access now has the value v.
Resumed(loop, v) ==
    Loop("eval", loop.cmd_type, [loop.expr EXCEPT !.op = "lit", !.v = v],
         loop.sent)

\* cmd_type "r" whose text evaluates to a value: return recv_value().  The
\* nested loop returns into the proxy that called it, and the value is the
\* value of the call or slot access; the top-level loop returns into the
\* module, which ends.
RecvReturn ==
    \E v \in ReturnValues :
        /\ Reading
        /\ IF Len(stack) = 1
           THEN Exited("r")
           ELSE /\ out' = <<>>
                /\ stack' = [SubSeq(stack, 1, Len(stack) - 1)
                               EXCEPT ![Len(stack) - 1] = Resumed(@, v)]
                /\ UNCHANGED <<return_values, python_handle, python_objects,
                               callbacks, foreigns, halted, issued>>

\* cmd_type "r" whose text raises: except Exception reports it and the
\* loop goes on.
RecvReturnRaises ==
    /\ Reading
    /\ python_handle < MaxHandle
    /\ LET w == return_error(VExc(<<"boom">>), return_values, Table) IN
       Answered("r", w)
    /\ UNCHANGED <<return_values, callbacks, foreigns, halted>>

\* cmd_type "O": return_values += 1
RecvO ==
    /\ Reading
    /\ return_values < MaxRv
    /\ return_values' = return_values + 1
    /\ out' = <<>>
    /\ stack' = SetTop(Loop("read", "O", NoExpr, 0))
    /\ UNCHANGED <<python_handle, python_objects, callbacks, foreigns,
                   halted, issued>>

\* An o branch that stops at zero.
RecvoClamped ==
    /\ Reading
    /\ return_values > -MaxRv
    /\ return_values' = IF return_values > 0 THEN return_values - 1 ELSE 0
    /\ out' = <<>>
    /\ stack' = SetTop(Loop("read", "o", NoExpr, 0))
    /\ UNCHANGED <<python_handle, python_objects, callbacks, foreigns,
                   halted, issued>>

\* cmd_type "o": return_values -= 1
Recvo ==
    /\ Reading
    /\ return_values > -MaxRv
    /\ return_values' = return_values - 1
    /\ out' = <<>>
    /\ stack' = SetTop(Loop("read", "o", NoExpr, 0))
    /\ UNCHANGED <<python_handle, python_objects, callbacks, foreigns,
                   halted, issued>>

\* Any other cmd_type: return_error("Unknown message type ...") with a str.
RecvUnknown ==
    \E c \in UnknownBytes :
        /\ Reading
        /\ python_handle < MaxHandle
        /\ LET w == return_error(
                        VStr(<<"Unknown message type ", "\"", c, "\"">>),
                        return_values, Table) IN
           Answered(c, w)
        /\ UNCHANGED <<return_values, callbacks, foreigns, halted>>

\* The host has closed the inbound stream: sys.stdin.read(1) returns ""
\* at once, now and on every later iteration (pc "eof"), and "" takes the
\* last branch like any other unknown byte.
RecvEOF ==
    /\ ~halted /\ stack # <<>> /\ Top.pc \in {"read", "eof"}
    /\ python_handle < MaxHandle
    /\ LET w == return_error(VStr(<<"Unknown message type ", "\"", "\"">>),
                             return_values, Table) IN
       /\ out' = w.frames
       /\ python_handle' = w.nh
       /\ python_objects' = w.objs
       /\ issued' = issued \o w.hs
       /\ stack' = SetTop([Loop("read", "", NoExpr, Responses(w))
                             EXCEPT !.pc = "eof"])
    /\ UNCHANGED <<return_values, callbacks, foreigns, halted>>

\* ------------------------------------------------------------ eval / exec
\* The text is an expression with a value (a literal, or the value a proxy
\* received from its nested loop).  e: return_value(result).
\* x: return_value(None).
EvalValue ==
    /\ Evaluating
    /\ Top.expr.op = "lit"
    /\ Handled(return_value(IF Top.cmd_type = "e" THEN Top.expr.v ELSE VNone,
                            return_values, Table))
    /\ UNCHANGED <<return_values, callbacks, foreigns, halted>>

\* The text raises an ordinary exception: except Exception: return_error(e)
EvalRaise ==
    /\ Evaluating
    /\ Top.expr.op = "raise"
    /\ Handled(return_error(VExc(<<"boom">>), return_values, Table))
    /\ UNCHANGED <<return_values, callbacks, foreigns, halted>>

\* e "_py4cl_objects[h]": the stored value, or KeyError(h)
EvalLookup ==
    /\ Evaluating
    /\ Top.expr.op = "get"
    /\ LET h == Top.expr.h IN
       IF h \in DOMAIN python_objects
       THEN Handled(return_value(python_objects[h], return_values, Table))
       ELSE Handled(return_error(VExc(<<ToString(h)>>), return_values,
                                 Table))
    /\ UNCHANGED <<return_values, callbacks, foreigns, halted>>

\* A delete that ignores a missing key, like python_objects.pop(h, None).
DeleteOrIgnore(h, objs) ==
    [raised |-> FALSE, objs |-> [g \in DOMAIN objs \ {h} |-> objs[g]]]

\* del python_objects[h]: KeyError(h) when h is not a key
Delete(h, objs) ==
    IF h \in DOMAIN objs
    THEN [raised |-> FALSE, objs |-> [g \in DOMAIN objs \ {h} |-> objs[g]]]
    ELSE [raised |-> TRUE, objs |-> objs]

\* x "del _py4cl_objects[h]": the entry is removed and None returned, or
\* KeyError(h) is reported
EvalDelete ==
    /\ Evaluating
    /\ Top.expr.op = "del"
    /\ LET h == Top.expr.h
           d == Delete(h, python_objects) IN
       IF d.raised
       THEN Handled(return_error(VExc(<<ToString(h)>>), return_values,
                                 Table))
       ELSE Handled(return_value(VNone, return_values,
                                 Store(python_handle, d.objs)))
    /\ UNCHANGED <<return_values, callbacks, foreigns, halted>>

\* x "f = _py4cl_LispCallbackObject(h)" / "o = _py4cl_UnknownLispObject(t, h)".
\* A proxy that the name was bound to is destroyed by the assignment.
EvalMakeProxy ==
    /\ Evaluating
    /\ Top.expr.op \in {"mkcb", "mkfo"}
    /\ LET h == Top.expr.h
           live == IF Top.expr.op = "mkcb" THEN callbacks ELSE foreigns
           d == IF h \in live THEN proxy_del(h, return_values, Table)
                ELSE Sent(<<>>, Table)
           w == return_value(VNone, return_values, ResStore(d)) IN
       /\ Handled(Sent(d.frames \o w.frames, ResStore(w)))
       /\ IF Top.expr.op = "mkcb"
          THEN callbacks' = callbacks \cup {h} /\ UNCHANGED foreigns
          ELSE foreigns' = foreigns \cup {h} /\ UNCHANGED callbacks
    /\ UNCHANGED <<return_values, halted>>

\* x "del f" / "del o": the proxy's __del__ runs, or NameError is reported
EvalDropProxy ==
    /\ Evaluating
    /\ Top.expr.op \in {"dropcb", "dropfo"}
    /\ LET h == Top.expr.h
           live == IF Top.expr.op = "dropcb" THEN callbacks ELSE foreigns IN
       IF h \in live
       THEN LET d == proxy_del(h, return_values, Table)
                w == return_value(VNone, return_values, ResStore(d)) IN
            /\ Handled(Sent(d.frames \o w.frames, ResStore(w)))
            /\ IF Top.expr.op = "dropcb"
               THEN callbacks' = callbacks \ {h} /\ UNCHANGED foreigns
               ELSE foreigns' = foreigns \ {h} /\ UNCHANGED callbacks
       ELSE /\ Handled(return_error(VExc(<<"name is not defined">>),
                                    return_values, Table))
            /\ UNCHANGED <<callbacks, foreigns>>
    /\ UNCHANGED <<return_values, halted>>

\* ----------------------------------------------------------------- proxies
\* allargs of LispCallbackObject.__call__: args, then for each keyword
\* argument Symbol(":" + str(key)) and its value.
RECURSIVE AllArgs(_, _)
AllArgs(args, kw) ==
    IF kw = <<>> THEN args
    ELSE AllArgs(args \o <<VSymbol(<<":", Head(kw).key>>), Head(kw).v>>,
                 Tail(kw))

\* A __call__ that sends the c frame without setting return_values to 0.
CallSendModeKept(old) == old

\* return_values while __call__ writes "c" and the (handle, allargs) tuple.
CallSendMode(old) == 0

\* return_values when __call__ enters message_dispatch_loop: the finally
\* clause has already run.
CallLoopMode(old) == old

\* e / x "f(*args, **kw)" on the callback proxy f: NameError when f is not
\* bound; otherwise __call__ writes the c frame and runs a nested
\* message_dispatch_loop.
EvalCall ==
    /\ Evaluating
    /\ Top.expr.op = "call"
    /\ LET h == Top.expr.h IN
       IF h \in callbacks
       THEN LET r == send_value(
                         VTuple(<<VInt(h),
                                  VTuple(AllArgs(Top.expr.args, Top.expr.kw))>>),
                         CallSendMode(return_values), Table) IN
            /\ Wrote(Sent(<<Frame("c", r.text)>>, ResStore(r)))
            /\ return_values' = CallLoopMode(return_values)
            /\ stack' = Append(SetTop(InCall(Top, return_values)),
                               Loop("read", "", NoExpr, 0))
       ELSE /\ Handled(return_error(VExc(<<"name is not defined">>),
                                    return_values, Table))
            /\ UNCHANGED return_values
    /\ UNCHANGED <<callbacks, foreigns, halted>>

\* e / x "o.slot" on the foreign object proxy o: NameError when o is not
\* bound; otherwise __getattr__ writes the s frame and runs a nested
\* message_dispatch_loop.
EvalSlot ==
    /\ Evaluating
    /\ Top.expr.op = "slot"
    /\ LET h == Top.expr.h IN
       IF h \in foreigns
       THEN LET r == send_value(VTuple(<<VInt(h), VStr(<<"slot">>)>>),
                                return_values, Table) IN
            /\ Wrote(Sent(<<Frame("s", r.text)>>, ResStore(r)))
            /\ stack' = Append(SetTop(Loop("wait", Top.cmd_type, Top.expr,
                                           Top.sent)),
                               Loop("read", "", NoExpr, 0))
       ELSE Handled(return_error(VExc(<<"name is not defined">>),
                                 return_values, Table))
    /\ UNCHANGED <<return_values, callbacks, foreigns, halted>>

\* SIGINT while eval / exec runs: except KeyboardInterrupt: return_value(None)
Interrupt ==
    /\ Evaluating
    /\ Handled(return_value(VNone, return_values, Table))
    /\ UNCHANGED <<return_values, callbacks, foreigns, halted>>

Next ==
    \/ RecvEval
    \/ RecvExec
    \/ RecvMalformed
    \/ RecvQuit
    \/ RecvReturn
    \/ RecvReturnRaises
    \/ RecvO
    \/ Recvo
    \/ RecvUnknown
    \/ RecvEOF
    \/ EvalValue
    \/ EvalRaise
    \/ EvalLookup
    \/ EvalDelete
    \/ EvalMakeProxy
    \/ EvalDropProxy
    \/ EvalCall
    \/ EvalSlot
    \/ Interrupt
    \/ Shutdown

Spec == Init /\ [][Next]_vars

\* ------------------------------------------------------------ interrupts
\* SIGINT raises KeyboardInterrupt between any two bytecodes of the main
\* thread, not only inside eval / exec.  The actions below deliver it at the
\* other places of message_dispatch_loop, with return_value and the
\* exception handler split where the signal can fall.  On return_stream a
\* frame whose payload is "" is a type byte with nothing written after it.

\* The loop on top of the stack is inside return_value, after line 295.
Sending == ~halted /\ stack # <<>> /\ Top.pc = "send"
\* The loop on top of the stack is inside except Exception, after line 299.
Failing == ~halted /\ stack # <<>> /\ Top.pc = "fail"

\* SIGINT while the loop waits in sys.stdin.read(1), which is inside the
\* try: except KeyboardInterrupt: return_value(None)
InterruptIdle ==
    /\ Reading
    /\ python_handle < MaxHandle
    /\ Len(out) < MaxUnread
    /\ Handled(return_value(VNone, return_values, Table))
    /\ UNCHANGED <<return_values, callbacks, foreigns, halted>>

\* return_value(result) of an e command up to line 295: "r" is written and
\* flushed, send_value has not started.
SendTypeByte ==
    /\ Evaluating
    /\ Top.cmd_type = "e" /\ Top.expr.op = "lit"
    /\ Top.expr.v.k # "Exception"
    /\ out' = Append(out, Frame("r", ""))
    /\ stack' = SetTop([Top EXCEPT !.pc = "send"])
    /\ UNCHANGED <<return_values, python_handle, python_objects, callbacks,
                   foreigns, halted, issued>>

\* send_value(value) of that return_value: the length line and the text.
SendPayload ==
    /\ Sending
    /\ LET r == send_value(Top.expr.v, return_values, Table) IN
       /\ out' = [out EXCEPT ![Len(out)] = Frame("r", r.text)]
       /\ python_handle' = r.nh
       /\ python_objects' = r.objs
       /\ issued' = issued \o r.hs
    /\ stack' = SetTop(Loop("read", Top.cmd_type, NoExpr, Top.sent + 1))
    /\ UNCHANGED <<return_values, callbacks, foreigns, halted>>

\* SIGINT between the two: return_value runs inside the try, so
\* except KeyboardInterrupt: return_value(None) writes a whole r frame
\* after the lone type byte.
InterruptInSend ==
    /\ Sending
    /\ Handled(return_value(VNone, return_values, Table))
    /\ UNCHANGED <<return_values, callbacks, foreigns, halted>>

\* except Exception: return_error(e) up to line 299: "e" is written,
\* send_value has not started.
ErrorTypeByte ==
    /\ Evaluating
    /\ Top.expr.op = "raise"
    /\ out' = Append(out, Frame("e", ""))
    /\ stack' = SetTop([Top EXCEPT !.pc = "fail"])
    /\ UNCHANGED <<return_values, python_handle, python_objects, callbacks,
                   foreigns, halted, issued>>

\* send_value(error) of that return_error.
ErrorPayload ==
    /\ Failing
    /\ out' = [out EXCEPT ![Len(out)] =
                  Frame("e", send_value(VExc(<<"boom">>), return_values,
                                        Table).text)]
    /\ stack' = SetTop(Loop("read", Top.cmd_type, NoExpr, Top.sent + 1))
    /\ UNCHANGED <<return_values, python_handle, python_objects, callbacks,
                   foreigns, halted, issued>>

\* SIGINT inside the except clause: no handler of this try statement
\* catches it, so KeyboardInterrupt leaves message_dispatch_loop.  The
\* top-level loop ends the process with a traceback; a nested loop unwinds
\* through the proxy into the eval / exec of the loop below, whose
\* except KeyboardInterrupt answers with return_value(None).
InterruptInHandler ==
    /\ Failing
    /\ IF Len(stack) = 1
       THEN Exited(Top.cmd_type)
       ELSE LET w == return_value(VNone, return_values, Table) IN
            /\ Wrote(w)
            /\ stack' = [SubSeq(stack, 1, Len(stack) - 1)
                           EXCEPT ![Len(stack) - 1] =
                               Loop("read", @.cmd_type, NoExpr,
                                    @.sent + Responses(w))]
            /\ UNCHANGED <<return_values, callbacks, foreigns, halted>>

NextInterrupts ==
    \/ Next
    \/ InterruptIdle
    \/ SendTypeByte
    \/ SendPayload
    \/ InterruptInSend
    \/ ErrorTypeByte
    \/ ErrorPayload
    \/ InterruptInHandler

\* The guest with SIGINT delivered at any of these places.
SpecInterrupts == Init /\ [][NextInterrupts]_vars

\* ================================================================= claims
Loops == DOMAIN stack
NoLoop == halted
\* The loop on top of the stack is back at sys.stdin.read(1) at the same
\* depth after this step, which started inside its eval / exec.
Finishes ==
    /\ Evaluating
    /\ Len(stack') = Len(stack)
    /\ stack'[Len(stack')].pc = "read"
TableUnchanged == UNCHANGED <<python_handle, python_objects, issued>>
\* The text of the opaque-handle reference to value v under handle h.
HandleRef(v, h) ==
    "#.(py4cl2::make-python-object-finalize :type \"<class '" \o v.k
        \o "'>\" :handle " \o ToString(h) \o ")"

\* C1: every invocation of the dispatch loop that has read an e, x or unknown
\* command byte has written exactly one r or e frame for it when it is back
\* at reading the next command byte, and none while the command is still
\* being evaluated (c, s and d frames are not counted).
C1_OneResponsePerCommand ==
    \A k \in Loops :
        /\ (stack[k].pc = "read"
              /\ stack[k].cmd_type \in {"e", "x"} \cup UnknownBytes)
           => stack[k].sent = 1
        /\ stack[k].pc \in {"eval", "wait"} => stack[k].sent = 0

\* C1 witness: a nested loop, in forced-handle mode, has answered an e
\* command whose value was an exception object, and reads again.
C1_Witness ==
    /\ Len(stack) = 2
    /\ return_values > 0
    /\ Top.pc = "read" /\ Top.cmd_type = "e" /\ Top.sent = 1
    /\ out = <<Frame("e", "bad value")>>

\* The step is an eval / exec that raises an ordinary exception.
Raises ==
    \/ EvalRaise
    \/ EvalLookup /\ Top.expr.h \notin DOMAIN python_objects
    \/ EvalDelete /\ Top.expr.h \notin DOMAIN python_objects
    \/ EvalDropProxy /\ Top.expr.op = "dropcb" /\ Top.expr.h \notin callbacks
    \/ EvalDropProxy /\ Top.expr.op = "dropfo" /\ Top.expr.h \notin foreigns
    \/ EvalCall /\ Top.expr.h \notin callbacks
    \/ EvalSlot /\ Top.expr.h \notin foreigns
\* str(e) of the exception that the text on top of the stack raises.
RaisedText ==
    IF Top.expr.op = "raise" THEN "boom"
    ELSE IF Top.expr.op \in {"get", "del"} THEN ToString(Top.expr.h)
    ELSE "name is not defined"

\* C2: an e or x command whose text raises an ordinary exception writes
\* exactly one e frame holding the exception's message, allocates no handle,
\* leaves return_values and the recursion depth as they were, and leaves the
\* loop reading the next command.
C2_ErrorIsolation ==
    [][Raises =>
        /\ out' = Append(out, Frame("e", RaisedText))
        /\ TableUnchanged
        /\ return_values' = return_values
        /\ Len(stack') = Len(stack)
        /\ stack'[Len(stack')].pc = "read"
        /\ ~halted']_vars

\* C2 witness: in forced-handle mode, inside a nested loop, an e command
\* raised and the loop reads again.
C2_Witness ==
    /\ Len(stack) = 2
    /\ return_values > 0
    /\ Top.pc = "read" /\ Top.cmd_type = "e"
    /\ out = <<Frame("e", "boom")>>

StrictlyIncreasing(seq) ==
    \A i, j \in DOMAIN seq : i < j => seq[i] < seq[j]
\* The value of the expression on top of the stack.
Value ==
    IF Top.expr.op = "get" THEN python_objects[Top.expr.h] ELSE Top.expr.v
\* The step answers an e command whose expression has a value that is not
\* an exception object.
Answers ==
    \/ EvalValue /\ Top.cmd_type = "e" /\ Top.expr.v.k # "Exception"
    \/ EvalLookup /\ Top.expr.h \in DOMAIN python_objects

\* C3: the handles returned by the allocations are strictly increasing (so
\* pairwise distinct and never reissued after a release), every entry of the
\* table is under a handle that was issued, and encoding in forced-handle
\* mode a value that the table already holds draws a new handle.
C3_HandlesIncrease ==
    [][/\ StrictlyIncreasing(issued')
       /\ \A h \in DOMAIN python_objects' : \E i \in DOMAIN issued' : issued'[i] = h
       /\ (/\ return_values > 0
           /\ Answers
           /\ \E h \in DOMAIN python_objects : python_objects[h] = Value)
          => /\ Len(issued') = Len(issued) + 1
             /\ issued'[Len(issued')] \notin DOMAIN python_objects
             /\ python_objects'[issued'[Len(issued')]] = Value]_vars

\* C3 witness: handle 0 was issued and released, and the value it held was
\* encoded again under handle 1.
C3_Witness ==
    /\ issued = <<0, 1>>
    /\ DOMAIN python_objects = {1}
    /\ python_objects[1] = VInt(5)
    /\ out = <<Frame("r", HandleRef(VInt(5), 1))>>

\* C4 (as claimed): a callback proxy invoked while return_values > 0 leaves
\* return_values at 0 when its nested dispatch loop starts.
C4_ResetDuringCall ==
    [][(EvalCall /\ Top.expr.h \in callbacks /\ return_values > 0)
         => return_values' = 0]_vars

\* C5 (as claimed): when the nested loop of a callback proxy returns the
\* call's result, return_values is what it was before the invocation.
C5_RestoredAfterCall ==
    [][(RecvReturn /\ Len(stack) > 1
          /\ stack[Len(stack) - 1].expr.op = "call")
         => return_values' = stack[Len(stack) - 1].old_return_values]_vars

\* The step answers with an r frame that refers to a new handle for Value
\* and adds exactly that entry to the table.
AnswersByHandle ==
    /\ out' = Append(out, Frame("r", HandleRef(Value, python_handle)))
    /\ python_handle' = python_handle + 1
    /\ issued' = Append(issued, python_handle)
    /\ DOMAIN python_objects' = DOMAIN python_objects \cup {python_handle}
    /\ python_handle \notin DOMAIN python_objects
    /\ python_objects'[python_handle] = Value
    /\ \A h \in DOMAIN python_objects : python_objects'[h] = python_objects[h]
\* The type of v has an encoder of its own.
EncodableType(v) == v.k \in lispifiers \cup numeric_base_classes
RECURSIVE EncodableThroughout(_)
\* The type of v has an encoder of its own, and so has every element of v.
EncodableThroughout(v) ==
    /\ EncodableType(v)
    /\ \A i \in DOMAIN v.elts : EncodableThroughout(v.elts[i])

C7_ErrorsAllocateNothing ==
    [][(out' # <<>> /\ out'[Len(out')].type = "e") => TableUnchanged]_vars

\* C8: del of a handle that is not in the table writes one e frame naming
\* the handle, changes neither the table nor the counter, and leaves the
\* loop, at the same depth, reading the next command.
C8_DeleteMissing ==
    [][(EvalDelete /\ Top.expr.h \notin DOMAIN python_objects) =>
        /\ out' = Append(out, Frame("e", ToString(Top.expr.h)))
        /\ TableUnchanged
        /\ UNCHANGED <<return_values, callbacks, foreigns>>
        /\ Len(stack') = Len(stack)
        /\ stack'[Len(stack')].pc = "read"
        /\ ~halted']_vars

\* C8 witness: handle 0 was allocated and released, and a further delete of
\* it was answered by an error frame; the loop reads again.
C8_Witness ==
    /\ python_handle > 0
    /\ 0 \notin DOMAIN python_objects
    /\ ~halted /\ Top.pc = "read" /\ Top.cmd_type = "x"
    /\ out = <<Frame("e", "0")>>

\* C9 (as claimed): an x command that succeeds is answered by an r frame
\* holding the encoding of None, and draws no handle.
C9_ExecReturnsNull ==
    [][(\/ EvalValue /\ Top.cmd_type = "x"
        \/ EvalDelete /\ Top.expr.h \in DOMAIN python_objects)
         => /\ out' = Append(out, Frame("r", "\"None\""))
            /\ python_handle' = python_handle
            /\ issued' = issued]_vars

\* C10 (as claimed): a loop that has handled a command other than q and r
\* has written an r or e frame when it reads the next command byte.
C10_AsClaimed ==
    \A k \in Loops :
        (stack[k].pc = "read" /\ stack[k].cmd_type \notin {"", "q", "r"})
            => stack[k].sent >= 1

\* C10 (amended): the e, x and unknown-command branches end by writing an r
\* or e frame; the O and o branches write nothing at all.
C10_ResponseBeforeNextRead ==
    [][/\ (Finishes \/ RecvUnknown
             \/ (RecvMalformed /\ stack'[Len(stack')].cmd_type \in {"e", "x"}))
          => (out' # <<>> /\ out'[Len(out')].type \in {"r", "e"})
       /\ (RecvO \/ Recvo) => (out' = <<>> /\ TableUnchanged)]_vars

\* C10 witness: the loop has handled an O command, nothing is on
\* return_stream, and it reads the next command byte.
C10_Witness ==
    /\ ~NoLoop /\ Top.pc = "read" /\ Top.cmd_type = "O" /\ Top.sent = 0
    /\ out = <<>>
    /\ return_values > 0

\* A step in which SIGINT is delivered to the guest.
Interrupted ==
    Interrupt \/ InterruptIdle \/ InterruptInSend \/ InterruptInHandler

\* C11 (as claimed): SIGINT during the eval / exec of an e or x command
\* writes exactly one r frame holding the encoding of None and leaves the
\* loop reading the next command at the same depth; wherever SIGINT falls,
\* the loop that was running goes on at the same depth; and SIGINT while no
\* command is being handled writes nothing.
C11_InterruptAnswersNull ==
    [][/\ Interrupt => out' = Append(out, Frame("r", "\"None\""))
       /\ Interrupted => /\ Len(stack') = Len(stack)
                         /\ stack'[Len(stack')].pc = "read"
       /\ InterruptIdle => out' = out]_vars

\* C12 (as claimed): once a q command has been read, at any depth, the
\* process ends with nothing written to return_stream after the q.
C12_QuitWritesNothing ==
    (halted /\ Top.cmd_type = "q") => out = <<>>

\* C13 (as claimed): the process ends only after a q command, and a loop
\* that has met the end of the inbound stream does not go on looping.
C13_StopsOnlyOnQuitOrFailure ==
    /\ halted => Top.cmd_type = "q"
    /\ \A k \in Loops : stack[k].pc # "eof"

\* The step reads an r command in a nested loop.
ReadsReturn ==
    Len(stack) > 1 /\ (RecvReturn \/ RecvReturnRaises)
\* The calls and slot accesses that wait for their nested loop.
Pending == {k \in Loops : stack[k].pc = "wait"}

C15_FramesNotInterleaved ==
    \A i \in DOMAIN out :
        /\ out[i].type \in {"r", "e", "c", "s", "d"}
        /\ out[i].payload = "" => i = Len(out)

\* The step destroys a live proxy: del of the name bound to it, or binding
\* the name to a new proxy.
Destroys ==
    \/ EvalDropProxy /\ Top.expr.op = "dropcb" /\ Top.expr.h \in callbacks
    \/ EvalDropProxy /\ Top.expr.op = "dropfo" /\ Top.expr.h \in foreigns
    \/ EvalMakeProxy /\ Top.expr.op = "mkcb" /\ Top.expr.h \in callbacks
    \/ EvalMakeProxy /\ Top.expr.op = "mkfo" /\ Top.expr.h \in foreigns
\* The frames written by the step.
Written == SubSeq(out', Len(out) + 1, Len(out'))

\* C16 (as claimed): the destruction of a proxy writes exactly one d frame,
\* whose payload is the proxy's handle as a plain integer, whatever
\* return_values is, and stores nothing in the handle table for it.
C16_DeleteFramePlain ==
    [][Destroys =>
        /\ Cardinality({i \in DOMAIN Written : Written[i].type = "d"}) = 1
        /\ Written[1] = Frame("d", ToString(Top.expr.h))
        /\ \A g \in DOMAIN python_objects' \ DOMAIN python_objects :
               python_objects'[g] # VInt(Top.expr.h)]_vars

\* C17 (as claimed): an attribute access on a live foreign object proxy
\* writes one s frame holding the tuple encoding of (handle, name), whatever
\* return_values is, draws no handle, and waits in a nested loop that reads
\* the next command.
C17_SlotFramePlain ==
    [][(EvalSlot /\ Top.expr.h \in foreigns) =>
        /\ out' = Append(out, Frame("s", "(" \o ToString(Top.expr.h)
                                            \o " \"slot\")"))
        /\ TableUnchanged
        /\ Len(stack') = Len(stack) + 1
        /\ stack'[Len(stack)].pc = "wait"
        /\ stack'[Len(stack')].pc = "read"]_vars

\* The number of values in args whose type has no encoder.
RECURSIVE Unknowns(_)
Unknowns(args) ==
    IF args = <<>> THEN 0
    ELSE (IF EncodableType(Head(args)) THEN 0 ELSE 1) + Unknowns(Tail(args))
\* The direct encodings of the integers and symbols in args, separated by
\* blanks, with a value of unknown type as a reference to the next handle
\* from nh on.
RECURSIVE ArgsText(_, _)
ArgsText(args, nh) ==
    IF args = <<>> THEN ""
    ELSE LET a == Head(args)
             sep == IF Tail(args) = <<>> THEN "" ELSE " " IN
         IF EncodableType(a)
         THEN PyStr(a) \o sep \o ArgsText(Tail(args), nh)
         ELSE HandleRef(a, nh) \o sep \o ArgsText(Tail(args), nh + 1)
\* Each keyword argument as the symbol :key followed by its value.
RECURSIVE Keywords(_)
Keywords(kw) ==
    IF kw = <<>> THEN <<>>
    ELSE <<VSymbol(<<":" \o Head(kw).key>>), Head(kw).v>> \o Keywords(Tail(kw))
\* C18: calling a live callback proxy writes exactly one c frame holding
\* (handle (arguments)) in the default encoding, whatever return_values is:
\* the positional arguments, then :key and value for each keyword argument,
\* integers and symbols as text, and one new handle for each argument of
\* unknown type and for nothing else (none for the tuple).
C18_CallFrameDefaultRules ==
    [][(EvalCall /\ Top.expr.h \in callbacks) =>
        LET all == Top.expr.args \o Keywords(Top.expr.kw)
            n == Unknowns(all) IN
        /\ out' = Append(out,
                     Frame("c", "(" \o ToString(Top.expr.h) \o " ("
                                  \o ArgsText(all, python_handle) \o "))"))
        /\ python_handle' = python_handle + n
        /\ Len(issued') = Len(issued) + n
        /\ Cardinality(DOMAIN python_objects') =
               Cardinality(DOMAIN python_objects) + n
        /\ \A g \in DOMAIN python_objects' \ DOMAIN python_objects :
               python_objects'[g].k \notin {"tuple", "int", "Symbol"}]_vars

\* C18 witness: in forced-handle mode the callback proxy 7 was called with
\* one object and key = 5; the c frame holds the default encoding, with
\* handle 0 for the object, and the nested loop reads.
C18_Witness ==
    /\ return_values > 0
    /\ Len(stack) = 2 /\ stack[1].pc = "wait" /\ Top.pc = "read"
    /\ out = <<Frame("c", "(7 (" \o HandleRef(VObj(1), 0) \o " :key 5))")>>
    /\ DOMAIN python_objects = {0} /\ python_objects[0] = VObj(1)

\* The step reads the command byte c, which has no payload and no answer.
Reads(c) ==
    /\ Reading
    /\ stack' = SetTop(Loop("read", c, NoExpr, 0))

C20_EntriesPersist ==
    [][~halted' =>
        /\ \A h \in DOMAIN python_objects' : h < python_handle'
        /\ \A h \in DOMAIN python_objects :
               \/ /\ h \in DOMAIN python_objects'
                  /\ python_objects'[h] = python_objects[h]
               \/ EvalDelete /\ Top.expr.h = h]_vars

\* C20 witness: handle 0 was drawn for the object passed to a callback
\* proxy; inside the nested loop, in forced-handle mode, None was stored
\* under handle 1, and handle 0 still maps to the object.
C20_Witness ==
    /\ Len(stack) = 2 /\ stack[1].expr.op = "call"
    /\ return_values > 0
    /\ python_handle = 2
    /\ DOMAIN python_objects = {0, 1}
    /\ python_objects[0] = VObj(1)
    /\ python_objects[1] = VNone

====
